---- MODULE Spec2Model ----
(***************************************************************************)
(* CenterNet decode (demos/common/python/models/centernet.py).             *)
(*                                                                         *)
(* Arrays are functions over 0..n-1, as in numpy; points and matrix rows   *)
(* are tuples.  Scores are per-mille (0.5 is 500), regression offsets and  *)
(* sizes are tenths of a heatmap cell, coordinates and class ids are       *)
(* rationals [n, d].  num_predictions is 100 in the source and is scaled   *)
(* down here, as are the tensor shapes.                                    *)
(***************************************************************************)
EXTENDS Integers, Sequences, FiniteSets, TLC

VARIABLES
    pc,         \* "idle" | "preprocessed" | "done" | "error"
    threshold,  \* self._threshold, per-mille
    net,        \* [w, h]: self.w, self.h, the network input resolution
    image,      \* image.shape of the frame, <<height, width, channels>>
    outputs,    \* [heat, reg, wh]: the three output blobs, batch entry 0
    meta,       \* what preprocess returns beside the blob
    pre,        \* the arguments preprocess gave get_affine_transform
    post,       \* the locals of postprocess when it returned or raised
    aff         \* one use of get_affine_transform: its arguments and results

vars == <<pc, threshold, net, image, outputs, meta, pre, post, aff>>

----------------------------------------------------------------------------
(* Bounds *)

MaxC == 2
MaxH == 2
MaxW == 3
MaxCells == 6
MaxImage == 4

\* num_predictions = 100 in postprocess, scaled down
num_predictions == 2

----------------------------------------------------------------------------
(* Arithmetic helpers *)

Max2(a, b) == IF a >= b THEN a ELSE b

Abs(a) == IF a < 0 THEN -a ELSE a

RECURSIVE Gcd(_, _)
Gcd(a, b) == IF b = 0 THEN a ELSE Gcd(b, a % b)

\* a rational n/d with d > 0, in lowest terms (a numpy float holding n/d)
Rat(n, d) ==
    LET s == IF d < 0 THEN -1 ELSE 1
        g == Gcd(Abs(n), Abs(d))
    IN  [n |-> (s * n) \div g, d |-> (s * d) \div g]

RatInt(k) == [n |-> k, d |-> 1]

RatAdd(p, q) == Rat(p.n * q.d + q.n * p.d, p.d * q.d)

RatSub(p, q) == Rat(p.n * q.d - q.n * p.d, p.d * q.d)

RatMul(p, q) == Rat(p.n * q.n, p.d * q.d)

RatIsInt(p) == p.d = 1

SetMax(S) == CHOOSE m \in S : \A v \in S : v <= m

\* the indices of a [C, H, W] tensor
Indices(c, h, w) == (0..(c - 1)) \X (0..(h - 1)) \X (0..(w - 1))

\* a [C, H, W] tensor, held as t.data[c][y][x], of the values v[<<c, y, x>>]
Tensor(c, h, w, v) ==
    [shape |-> <<c, h, w>>,
     data |-> [k \in 0..(c - 1) |-> [y \in 0..(h - 1) |-> [x \in 0..(w - 1) |-> v[<<k, y, x>>]]]]]

----------------------------------------------------------------------------
(* heat = np.exp(heat)/(1 + np.exp(heat)), line 65, on the logits the      *)
(* model draws: exp(-200) underflows to 0 in float32, so the score is 0.   *)

Sigmoid(x) ==
    CASE x = -200 -> 0
      [] x = 0 -> 500
      [] x = 2 -> 881

sigmoid(heat) ==
    [shape |-> heat.shape,
     data |-> [k \in DOMAIN heat.data |-> [y \in DOMAIN heat.data[k] |->
                [x \in DOMAIN heat.data[k][y] |-> Sigmoid(heat.data[k][y][x])]]]]

----------------------------------------------------------------------------
(* _nms, lines 171-189 *)

\* np.pad(A, padding, mode='constant'): the value of the padded channel at
\* padded row i, padded column j
padded(A, h, w, padding, i, j) ==
    IF i >= padding /\ i < h + padding /\ j >= padding /\ j < w + padding
    THEN A[i - padding][j - padding]
    ELSE 0

\* max_pool2d(A, kernel_size, padding, stride=1): A_w[i, j, a, b] is the
\* padded channel at [i + a, j + b]; the result is the window's maximum
max_pool2d(A, h, w, kernel_size, padding) ==
    [y \in 0..(h + 2 * padding - kernel_size) |->
      [x \in 0..(w + 2 * padding - kernel_size) |->
        SetMax({padded(A, h, w, padding, y + a, x + b) :
                a \in 0..(kernel_size - 1), b \in 0..(kernel_size - 1)})]]

nms_strict(heat, kernel) ==
    LET h == heat.shape[2]
        w == heat.shape[3]
        pad == (kernel - 1) \div 2
        alone(k, y, x) ==
            Cardinality({<<a, b>> \in (0..(kernel - 1)) \X (0..(kernel - 1)) :
                padded(heat.data[k], h, w, pad, y + a, x + b) >= heat.data[k][y][x]}) = 1
    IN  [shape |-> heat.shape,
         data |-> [k \in DOMAIN heat.data |-> [y \in 0..(h - 1) |-> [x \in 0..(w - 1) |->
                    IF alone(k, y, x) THEN heat.data[k][y][x] ELSE 0]]]]

nms(heat, kernel) ==
    LET h == heat.shape[2]
        w == heat.shape[3]
        pad == (kernel - 1) \div 2
        hmax == [k \in DOMAIN heat.data |-> max_pool2d(heat.data[k], h, w, kernel, pad)]
        keep == [k \in DOMAIN heat.data |-> [y \in 0..(h - 1) |-> [x \in 0..(w - 1) |->
                    hmax[k][y][x] = heat.data[k][y][x]]]]
    IN  [shape |-> heat.shape,
         data |-> [k \in DOMAIN heat.data |-> [y \in 0..(h - 1) |-> [x \in 0..(w - 1) |->
                    IF keep[k][y][x] THEN heat.data[k][y][x] ELSE 0]]]]

----------------------------------------------------------------------------
(* np.argpartition(a, -K)[-K:], lines 154 and 161.  numpy puts the element *)
(* of sorted rank n-K at position n-K, every smaller-or-equal element      *)
(* before it and every greater-or-equal element after it, in an order it   *)
(* does not define: every such outcome is possible.  K > n raises          *)
(* ValueError (kth out of bounds).                                         *)

argpartition_ok(n, K) == K <= n

\* any K distinct positions, largest or not
argpartition_lastk_any(a, n, K) ==
    {s \in [0..(K - 1) -> 0..(n - 1)] : \A i, j \in 0..(K - 1) : i # j => s[i] # s[j]}

argpartition_lastk(a, n, K) ==
    {s \in [0..(K - 1) -> 0..(n - 1)] :
        /\ \A i, j \in 0..(K - 1) : i # j => s[i] # s[j]
        /\ \A i \in 0..(K - 1) : a[s[0]] <= a[s[i]]
        /\ \A j \in 0..(n - 1) : (\A i \in 0..(K - 1) : s[i] # j) => a[j] <= a[s[0]]}

\* scores.reshape((cat, -1)): row-major, cell (y, x) at y * width + x
reshape_rows(t) ==
    LET w == t.shape[3]
    IN  [k \in 0..(t.shape[1] - 1) |->
          [i \in 0..(t.shape[2] * w - 1) |-> t.data[k][i \div w][i % w]]]

\* the outcomes of argpartition on every row (axis=1) of a 2-D array
RECURSIVE argpartition_rows(_, _, _, _)
argpartition_rows(rows, cat, n, K) ==
    IF cat = 0
    THEN {<<>>}
    ELSE {((cat - 1) :> s) @@ f :
            s \in argpartition_lastk(rows[cat - 1], n, K),
            f \in argpartition_rows(rows, cat - 1, n, K)}

----------------------------------------------------------------------------
(* _gather_feat, lines 134-140: feat[ind[k], d] for each k and column d;   *)
(* an index outside feat's rows raises IndexError.                         *)

gather_ok(rows, ind) == \A k \in DOMAIN ind : ind[k] >= -rows /\ ind[k] < rows

gather_feat(feat, dim, ind) ==
    [k \in DOMAIN ind |-> [d \in 0..(dim - 1) |-> feat[ind[k]][d]]]

\* the rows taken column by column: row i holds the cell at (i mod H, i div H)
transpose_rows_colmajor(feat) ==
    LET h == feat.shape[2]
    IN  [i \in 0..(h * feat.shape[3] - 1) |->
          [d \in 0..(feat.shape[1] - 1) |-> feat.data[d][i % h][i \div h]]]

\* np.transpose(feat, (1, 2, 0)).reshape((-1, feat.shape[2])): row i holds
\* the channels of the cell at (i div W, i mod W), W the width of feat itself
transpose_rows(feat) ==
    LET w == feat.shape[3]
    IN  [i \in 0..(feat.shape[2] * w - 1) |->
          [d \in 0..(feat.shape[1] - 1) |-> feat.data[d][i \div w][i % w]]]

\* _tranpose_and_gather_feat, lines 142-147
tranpose_and_gather_feat_ok(feat, ind) == gather_ok(feat.shape[2] * feat.shape[3], ind)

tranpose_and_gather_feat(feat, ind) ==
    gather_feat(transpose_rows(feat), feat.shape[1], ind)

----------------------------------------------------------------------------
(* _topk, lines 150-169.  sel is the outcome of the per-class partition    *)
(* (line 154) and gsel the outcome of the global one (line 161).           *)

topk_ok(scores, K) == argpartition_ok(scores.shape[2] * scores.shape[3], K)

\* topk_scores.reshape((-1)): entry c * K + j is candidate j of class c
topk_flat(scores, K, sel) ==
    LET rows == reshape_rows(scores)
    IN  [g \in 0..(scores.shape[1] * K - 1) |-> rows[g \div K][sel[g \div K][g % K]]]

\* a.reshape((-1, 1)) and its inverse .reshape((K))
column(a) == [g \in DOMAIN a |-> [d \in {0} |-> a[g]]]

uncolumn(f) == [k \in DOMAIN f |-> f[k][0]]

\* the global slice taken one short, [-K+1:]
topk_short(scores, K, sel, gsel) ==
    LET width == scores.shape[3]
        topk_scores == topk_flat(scores, K, sel)
        topk_inds == [g \in DOMAIN topk_scores |-> sel[g \div K][g % K]]
        short == [k \in 0..(K - 2) |-> gsel[k + 1]]
    IN  [score |-> [k \in DOMAIN short |-> topk_scores[short[k]]],
         inds |-> [k \in DOMAIN short |-> topk_inds[short[k]]],
         clses |-> [k \in DOMAIN short |-> Rat(short[k], K)],
         ys |-> [k \in DOMAIN short |-> topk_inds[short[k]] \div width],
         xs |-> [k \in DOMAIN short |-> topk_inds[short[k]] % width]]

topk(scores, K, sel, gsel) ==
    LET width == scores.shape[3]
        topk_scores == topk_flat(scores, K, sel)
        topk_inds == [g \in DOMAIN topk_scores |-> sel[g \div K][g % K]]
        \* (topk_inds / width).astype(np.int32) and topk_inds % width
        topk_ys == [g \in DOMAIN topk_scores |-> topk_inds[g] \div width]
        topk_xs == [g \in DOMAIN topk_scores |-> topk_inds[g] % width]
    IN  [score |-> [k \in 0..(K - 1) |-> topk_scores[gsel[k]]],
         inds |-> uncolumn(gather_feat(column(topk_inds), 1, gsel)),
         \* topk_ind / K is Python 3 true division: a float, not truncated
         clses |-> [k \in 0..(K - 1) |-> Rat(gsel[k], K)],
         ys |-> uncolumn(gather_feat(column(topk_ys), 1, gsel)),
         xs |-> uncolumn(gather_feat(column(topk_xs), 1, gsel))]

----------------------------------------------------------------------------
(* get_affine_transform, lines 94-132.  center is a pair of rationals    *)
(* that are whole or half numbers and scale is scalar; the six points are  *)
(* held doubled, so that they are integers; rot is a multiple of 90        *)
(* degrees, where sin and cos are 0, 1 or -1.  The matrix is exact.        *)

RatNeg(p) == [n |-> -p.n, d |-> p.d]

RatHalf(k) == Rat(k, 2)

\* twice a whole or half number
Twice(p) == (2 * p.n) \div p.d

SinDeg(rot) == CASE rot % 360 = 0 -> 0 [] rot % 360 = 90 -> 1
                 [] rot % 360 = 180 -> 0 [] rot % 360 = 270 -> -1

CosDeg(rot) == CASE rot % 360 = 0 -> 1 [] rot % 360 = 90 -> 0
                 [] rot % 360 = 180 -> -1 [] rot % 360 = 270 -> 0

\* the determinant of the rows r[1], r[2], r[3]
Det3(r) ==
      r[1][1] * (r[2][2] * r[3][3] - r[2][3] * r[3][2])
    - r[1][2] * (r[2][1] * r[3][3] - r[2][3] * r[3][1])
    + r[1][3] * (r[2][1] * r[3][2] - r[2][2] * r[3][1])

\* cv2.getAffineTransform(from, to) on doubled points: the 2x3 matrix that
\* takes each of the three points from[i] to to[i] (Cramer's rule on the
\* 3-point system); the translation column is halved back
getAffineTransform(from, to) ==
    LET D == Det3(<<<<from[1][1], from[1][2], 1>>, <<from[2][1], from[2][2], 1>>,
                    <<from[3][1], from[3][2], 1>>>>)
        row(c) ==
            <<Rat(Det3(<<<<to[1][c], from[1][2], 1>>, <<to[2][c], from[2][2], 1>>,
                         <<to[3][c], from[3][2], 1>>>>), D),
              Rat(Det3(<<<<from[1][1], to[1][c], 1>>, <<from[2][1], to[2][c], 1>>,
                         <<from[3][1], to[3][c], 1>>>>), D),
              Rat(Det3(<<<<from[1][1], from[1][2], to[1][c]>>, <<from[2][1], from[2][2], to[2][c]>>,
                         <<from[3][1], from[3][2], to[3][c]>>>>), 2 * D)>>
    IN  <<row(1), row(2)>>

\* get_dir on a doubled point
get_dir(src_point, rot) ==
    LET sn == SinDeg(rot)
        cs == CosDeg(rot)
    IN  <<src_point[1] * cs - src_point[2] * sn, src_point[1] * sn + src_point[2] * cs>>

get_3rd_point(a, b) ==
    LET direct == <<a[1] - b[1], a[2] - b[2]>>
    IN  <<b[1] - direct[2], b[2] + direct[1]>>

\* the three source and destination points, doubled, lines 108-125
affine_points(center, scale, rot, output_size) ==
    LET src_w == scale
        dst_w == output_size[1]
        dst_h == output_size[2]
        \* twice [0, src_w * -0.5] and twice [0, dst_w * -0.5]
        src_dir == get_dir(<<0, -src_w>>, rot)
        dst_dir == <<0, -dst_w>>
        src0 == <<Twice(center[1]), Twice(center[2])>>
        src1 == <<src0[1] + src_dir[1], src0[2] + src_dir[2]>>
        \* twice [dst_w * 0.5, dst_h * 0.5]
        dst0 == <<dst_w, dst_h>>
        dst1 == <<dst0[1] + dst_dir[1], dst0[2] + dst_dir[2]>>
    IN  [src |-> <<src0, src1, get_3rd_point(src0, src1)>>,
         dst |-> <<dst0, dst1, get_3rd_point(dst0, dst1)>>]

\* the inv flag ignored
get_affine_transform_forward(center, scale, rot, output_size, inv) ==
    LET p == affine_points(center, scale, rot, output_size)
    IN  getAffineTransform(p.src, p.dst)

get_affine_transform(center, scale, rot, output_size, inv) ==
    LET p == affine_points(center, scale, rot, output_size)
    IN  IF inv
        THEN getAffineTransform(p.dst, p.src)
        ELSE getAffineTransform(p.src, p.dst)

\* affine_transform(pt, t), lines 193-196: t . [pt[0], pt[1], 1]
affine_transform(pt, t) ==
    <<RatAdd(RatAdd(RatMul(t[1][1], pt[1]), RatMul(t[1][2], pt[2])), t[1][3]),
      RatAdd(RatAdd(RatMul(t[2][1], pt[1]), RatMul(t[2][2], pt[2])), t[2][3])>>

----------------------------------------------------------------------------
(* postprocess, lines 61-92, and _transform, lines 191-210 *)

\* lines 71-85: one row [x1, y1, x2, y2, score, classId] per candidate;
\* reg and wh are the gathered (num_predictions, 2) arrays, in tenths
box_rows(cand, reg, wh) ==
    [k \in DOMAIN cand.score |->
        LET xs == RatAdd(RatInt(cand.xs[k]), Rat(reg[k][0], 10))
            ys == RatAdd(RatInt(cand.ys[k]), Rat(reg[k][1], 10))
            hw == Rat(wh[k][0], 20)
            hh == Rat(wh[k][1], 20)
        IN  [x1 |-> RatSub(xs, hw), y1 |-> RatSub(ys, hh),
             x2 |-> RatAdd(xs, hw), y2 |-> RatAdd(ys, hh),
             score |-> cand.score[k], id |-> cand.clses[k]]]

\* detections[mask]: the rows k, k+1, .. n-1 whose mask is set, in order
RECURSIVE select_rows(_, _, _, _)
select_rows(detections, n, k, mask) ==
    IF k >= n
    THEN <<>>
    ELSE (IF mask[k] THEN <<detections[k]>> ELSE <<>>)
         \o select_rows(detections, n, k + 1, mask)

\* the mask taken with > instead of >=
filter_detections_strict(detections, thr) ==
    select_rows(detections, Cardinality(DOMAIN detections), 0,
                [k \in DOMAIN detections |-> detections[k].score > thr])

\* the mask taken with <= instead of >=
filter_detections_inverted(detections, thr) ==
    select_rows(detections, Cardinality(DOMAIN detections), 0,
                [k \in DOMAIN detections |-> detections[k].score <= thr])

\* lines 86-87: mask = detections[..., 4] >= self._threshold
filter_detections(detections, thr) ==
    select_rows(detections, Cardinality(DOMAIN detections), 0,
                [k \in DOMAIN detections |-> detections[k].score >= thr])

\* _transform_preds, lines 191-202: every point of coords through the
\* inverse matrix
transform_preds(coords, center, scale, output_size) ==
    LET trans == get_affine_transform(center, scale, 0, output_size, TRUE)
    IN  [p \in DOMAIN coords |-> affine_transform(coords[p], trans)]

\* the output size given as (height, width)
transform_swapped(dets, center, scale, height, width) ==
    LET a == transform_preds([p \in DOMAIN dets |-> <<dets[p].x1, dets[p].y1>>],
                             center, scale, <<height, width>>)
        b == transform_preds([p \in DOMAIN dets |-> <<dets[p].x2, dets[p].y2>>],
                             center, scale, <<height, width>>)
    IN  [p \in DOMAIN dets |->
            [dets[p] EXCEPT !.x1 = a[p][1], !.y1 = a[p][2], !.x2 = b[p][1], !.y2 = b[p][2]]]

\* _transform, lines 204-210
transform(dets, center, scale, height, width) ==
    LET a == transform_preds([p \in DOMAIN dets |-> <<dets[p].x1, dets[p].y1>>],
                             center, scale, <<width, height>>)
        b == transform_preds([p \in DOMAIN dets |-> <<dets[p].x2, dets[p].y2>>],
                             center, scale, <<width, height>>)
    IN  [p \in DOMAIN dets |->
            [dets[p] EXCEPT !.x1 = a[p][1], !.y1 = a[p][2], !.x2 = b[p][1], !.y2 = b[p][2]]]

\* max(meta['original_shape']), line 88
max_shape(shape) == SetMax({shape[i] : i \in DOMAIN shape})

NoPost ==
    [err |-> "", heat |-> <<>>, cand |-> <<>>, detections |-> <<>>,
     filtered |-> <<>>, center |-> <<>>, scale |-> 0, dets |-> <<>>]

\* the locals of postprocess from line 70 on, given the suppressed heatmap
\* and the two partition outcomes; a gather out of range raises IndexError
\* (line 71 or 77)
postprocess(heat, outs, m, thr, sel, gsel) ==
    LET height == heat.shape[2]
        width == heat.shape[3]
        cand == topk(heat, num_predictions, sel, gsel)
        reg == tranpose_and_gather_feat(outs.reg, cand.inds)
        wh == tranpose_and_gather_feat(outs.wh, cand.inds)
        detections == box_rows(cand, reg, wh)
        filtered == filter_detections(detections, thr)
        scale == max_shape(m.original_shape)
        \* np.flip(np.array(shape[:2]) / 2.0, 0): (width / 2, height / 2)
        center == <<RatHalf(m.original_shape[2]), RatHalf(m.original_shape[1])>>
    IN  IF /\ tranpose_and_gather_feat_ok(outs.reg, cand.inds)
           /\ tranpose_and_gather_feat_ok(outs.wh, cand.inds)
        THEN [err |-> "", heat |-> heat, cand |-> cand, detections |-> detections,
              filtered |-> filtered, center |-> center, scale |-> scale,
              dets |-> transform(filtered, center, scale, height, width)]
        ELSE [NoPost EXCEPT !.err = "IndexError", !.heat = heat, !.cand = cand]

----------------------------------------------------------------------------
(* Actions *)

\* preprocess, lines 45-59; the pixels of the image are not modelled
Preprocess ==
    /\ pc = "idle"
    /\ LET height == image[1]
           width == image[2]
           center == <<RatHalf(width), RatHalf(height)>>
           scale == Max2(height, width)
       IN  /\ meta' = [original_shape |-> image]
           /\ pre' = [center |-> center, scale |-> scale,
                      trans |-> get_affine_transform(center, scale, 0, <<net.w, net.h>>, FALSE)]
    /\ pc' = "preprocessed"
    /\ UNCHANGED <<threshold, net, image, outputs, post, aff>>

\* postprocess, lines 61-92: it returns, or np.argpartition raises
\* ValueError in _topk (line 154), or a gather raises IndexError
Postprocess ==
    /\ pc = "preprocessed"
    /\ LET heat == nms(sigmoid(outputs.heat), 3)
           n == heat.shape[2] * heat.shape[3]
       IN  IF ~topk_ok(heat, num_predictions)
           THEN /\ post' = [NoPost EXCEPT !.err = "ValueError", !.heat = heat]
                /\ pc' = "error"
           ELSE \E sel \in argpartition_rows(reshape_rows(heat), heat.shape[1], n, num_predictions) :
                \E gsel \in argpartition_lastk(topk_flat(heat, num_predictions, sel),
                                               heat.shape[1] * num_predictions, num_predictions) :
                    /\ post' = postprocess(heat, outputs, meta, threshold, sel, gsel)
                    /\ pc' = IF post'.err = "" THEN "done" ELSE "error"
    /\ UNCHANGED <<threshold, net, image, outputs, meta, pre, aff>>

\* get_affine_transform used in both directions on one point
SolveAffine ==
    /\ pc = "affine"
    /\ LET fwd == get_affine_transform(aff.center, aff.scale, aff.rot, aff.output_size, FALSE)
           inv == get_affine_transform(aff.center, aff.scale, aff.rot, aff.output_size, TRUE)
           there == affine_transform(aff.pt, fwd)
       IN  aff' = [aff EXCEPT !.fwd = fwd, !.inv = inv, !.there = there,
                              !.back = affine_transform(there, inv)]
    /\ pc' = "solved"
    /\ UNCHANGED <<threshold, net, image, outputs, meta, pre, post>>

----------------------------------------------------------------------------
(* Inputs *)

Logits == {-200, 0, 2}

Scores == {Sigmoid(x) : x \in Logits}

HeatShapes ==
    {s \in (1..MaxC) \X (1..MaxH) \X (1..MaxW) : s[1] * s[2] * s[3] <= MaxCells}

TensorsOf(s, L) ==
    {[shape |-> s, data |-> d] :
        d \in [0..(s[1] - 1) -> [0..(s[2] - 1) -> [0..(s[3] - 1) -> L]]]}

\* every heatmap of every shape
AllHeats == UNION {TensorsOf(s, Logits) : s \in HeatShapes}

\* a flat heatmap with at most one cell raised above the rest
PeakHeats ==
    UNION {{Tensor(s[1], s[2], s[3], [i \in Indices(s[1], s[2], s[3]) |-> b]) : b \in Logits}
           \cup {Tensor(s[1], s[2], s[3],
                        [i \in Indices(s[1], s[2], s[3]) |-> IF i = p[2] THEN p[3] ELSE p[1]]) :
                   p \in {q \in Logits \X Indices(s[1], s[2], s[3]) \X Logits : q[3] > q[1]}} :
           s \in HeatShapes}

\* the flat heatmaps of one class
FlatHeats ==
    {Tensor(1, s[2], s[3], [i \in Indices(1, s[2], s[3]) |-> b]) :
        b \in Logits, s \in {t \in HeatShapes : t[1] = 1}}

\* offsets in tenths of a cell, different in every cell and channel
RegOf(h, w) ==
    Tensor(2, h, w, [i \in Indices(2, h, w) |->
                        IF i[1] = 0 THEN 1 + (i[2] * w + i[3]) ELSE -2 - (i[2] * w + i[3])])

\* sizes in tenths of a cell, different in every cell and channel
WhOf(h, w) ==
    Tensor(2, h, w, [i \in Indices(2, h, w) |->
                        IF i[1] = 0 THEN 100 + 5 * (i[2] * w + i[3]) ELSE 200 + 30 * (i[2] * w + i[3])])

\* the spatial shapes an offset or size blob may come in, beside (h, w)
ShapesNear(h, w) == {<<h, w>>, <<h, w + 1>>} \cup (IF w > 1 THEN {<<h, w - 1>>} ELSE {})

MatchingOutputs(Heats) ==
    {[heat |-> t, reg |-> RegOf(t.shape[2], t.shape[3]), wh |-> WhOf(t.shape[2], t.shape[3])] :
        t \in Heats}

\* the offset blob or the size blob, or neither, of a nearby shape
AnyOutputs(Heats) ==
    UNION {{[heat |-> t, reg |-> RegOf(q[1][1], q[1][2]), wh |-> WhOf(q[2][1], q[2][2])] :
              q \in {r \in ShapesNear(t.shape[2], t.shape[3]) \X ShapesNear(t.shape[2], t.shape[3]) :
                       \/ r[1] = <<t.shape[2], t.shape[3]>>
                       \/ r[2] = <<t.shape[2], t.shape[3]>>}} : t \in Heats}

\* per-mille: the default 0.3 (line 26), 0.5, and 1.1, above every score
Thresholds == {300, 500, 1100}

Images == {<<h, w, 3>> : h \in 1..MaxImage, w \in 1..MaxImage}

InitDecode(Outs, Thrs, Imgs) ==
    /\ pc = "idle"
    /\ threshold \in Thrs
    /\ net = [w |-> 8, h |-> 8]
    /\ image \in Imgs
    /\ outputs \in Outs
    /\ meta = <<>>
    /\ pre = <<>>
    /\ post = NoPost
    /\ aff = <<>>

NextDecode == Preprocess \/ Postprocess

\* boxes: sparse heatmaps, blobs of any nearby shape, every threshold
Init == InitDecode(AnyOutputs(PeakHeats), Thresholds, {<<4, 3, 3>>})

Spec == Init /\ [][NextDecode]_vars

\* heatmaps: every heatmap, blobs of its shape
InitHeat == InitDecode(MatchingOutputs(AllHeats), {300}, {<<4, 3, 3>>})

SpecHeat == InitHeat /\ [][NextDecode]_vars

\* frames: every image shape, flat heatmaps
InitImage == InitDecode(MatchingOutputs(FlatHeats), {300}, Images)

SpecImage == InitImage /\ [][NextDecode]_vars

\* get_affine_transform alone: centres on the half-pixel grid, rotations by
\* quarter turns
AffineInputs ==
    [center : {<<RatHalf(cx), RatHalf(cy)>> : cx \in 1..MaxImage, cy \in 1..MaxImage},
     scale : 1..MaxImage,
     rot : {0, 90, 180, 270},
     output_size : (1..MaxW) \X (1..MaxH),
     pt : {<<RatInt(px), RatInt(py)>> : px \in 0..1, py \in 0..1},
     fwd : {<<>>}, inv : {<<>>}, there : {<<>>}, back : {<<>>}]

InitAffine ==
    /\ pc = "affine"
    /\ aff \in AffineInputs
    /\ threshold = 300
    /\ net = [w |-> 8, h |-> 8]
    /\ image = <<4, 3, 3>>
    /\ outputs = <<>>
    /\ meta = <<>>
    /\ pre = <<>>
    /\ post = NoPost

SpecAffine == InitAffine /\ [][SolveAffine]_vars

----------------------------------------------------------------------------
(* Properties *)

Ran == pc \in {"done", "error"}

\* the sigmoid scores postprocess starts from
RawScores == sigmoid(outputs.heat)

Cells(t) == Indices(t.shape[1], t.shape[2], t.shape[3])

At(t, c) == t.data[c[1]][c[2]][c[3]]

HeatH == outputs.heat.shape[2]
HeatW == outputs.heat.shape[3]

CandArrays == {"score", "inds", "clses", "ys", "xs"}

\* C1, as claimed: for every heatmap [C,H,W] the two-stage top-K returns
\* exactly K candidates, each of the score, index, class, y and x arrays
\* holding exactly K entries.
C1_TopkAlwaysK ==
    Ran => /\ DOMAIN post.cand = CandArrays
           /\ \A a \in CandArrays : DOMAIN post.cand[a] = 0..(num_predictions - 1)

\* C1, amended: for every heatmap with H*W >= K the two-stage top-K returns
\* exactly K candidates in each of the five arrays, an all-zero or flat
\* heatmap included; for a heatmap with H*W < K the per-class partition
\* raises and no candidate is returned.
C1_TopkCount ==
    Ran => IF HeatH * HeatW >= num_predictions
           THEN /\ post.err # "ValueError"
                /\ DOMAIN post.cand = CandArrays
                /\ \A a \in CandArrays : DOMAIN post.cand[a] = 0..(num_predictions - 1)
           ELSE /\ post.err = "ValueError"
                /\ post.cand = <<>>

\* an all-zero heatmap with more cells than K, decoded to K candidates
C1_Witness ==
    /\ pc = "done"
    /\ HeatH * HeatW > num_predictions
    /\ \A c \in Cells(RawScores) : At(RawScores, c) = 0
    /\ Cardinality(DOMAIN post.cand.score) = num_predictions

ScoreValues == {At(post.heat, c) : c \in Cells(post.heat)}

CellsAtLeast(v) == Cardinality({c \in Cells(post.heat) : At(post.heat, c) >= v})

CandAtLeast(v) == Cardinality({k \in DOMAIN post.cand.score : post.cand.score[k] >= v})

\* C2: the K scores the two-stage selection returns are, as a multiset, the
\* K largest values of the suppressed heatmap over all classes and cells:
\* for every value v, as many returned scores are >= v as there are cells
\* >= v, up to K.
C2_TopkIsGlobalTopK ==
    pc = "done" =>
        /\ Cardinality(DOMAIN post.cand.score) = num_predictions
        /\ \A k \in DOMAIN post.cand.score : post.cand.score[k] \in ScoreValues
        /\ \A v \in ScoreValues :
              CandAtLeast(v) = IF CellsAtLeast(v) < num_predictions
                               THEN CellsAtLeast(v) ELSE num_predictions

\* two classes, more peaks than K, and both candidates out of one class
C2_Witness ==
    /\ pc = "done"
    /\ post.heat.shape[1] = 2
    /\ CellsAtLeast(1) > num_predictions
    /\ \E c \in Cells(post.heat) : c[1] = 0 /\ At(post.heat, c) > 0
    /\ \A k \in DOMAIN post.cand.score :
          post.cand.score[k] > 0 /\ post.cand.clses[k].n >= post.cand.clses[k].d

\* C3: the class id of every candidate is the integer globalIndex div K,
\* and it is the index of the heatmap channel the candidate's score was
\* taken from.
C3_ClassIdIsChannel ==
    pc = "done" =>
        \A k \in DOMAIN post.cand.score :
            /\ RatIsInt(post.cand.clses[k])
            /\ post.cand.clses[k].n \in 0..(post.heat.shape[1] - 1)
            /\ post.heat.data[post.cand.clses[k].n][post.cand.ys[k]][post.cand.xs[k]]
                 = post.cand.score[k]

\* the 3x3 neighbourhood of a cell within its channel, cut at the border
Neighbours(t, c) ==
    {d \in Cells(t) : d[1] = c[1] /\ Abs(d[2] - c[2]) <= 1 /\ Abs(d[3] - c[3]) <= 1}

IsLocalMax(t, c) ==
    /\ At(t, c) >= 0
    /\ \A d \in Neighbours(t, c) : At(t, d) <= At(t, c)

\* C4: every cell of the suppressed heatmap holds its sigmoid score when
\* that score is the maximum of its 3x3 neighbourhood (zero beyond the
\* border) and 0 otherwise; ties all survive, so a flat heatmap is left as
\* it is; no cell is above its sigmoid score.
C4_NmsKeepsLocalMaxima ==
    Ran =>
        /\ post.heat.shape = outputs.heat.shape
        /\ \A c \in Cells(RawScores) :
              /\ At(post.heat, c) = IF IsLocalMax(RawScores, c) THEN At(RawScores, c) ELSE 0
              /\ At(post.heat, c) <= At(RawScores, c)
        /\ (\A c, d \in Cells(RawScores) : At(RawScores, c) = At(RawScores, d))
              => post.heat = RawScores

\* two neighbours tied at the maximum both survive while a lower cell of
\* the channel is zeroed
C4_Witness ==
    /\ Ran
    /\ \E c, d \in Cells(RawScores) :
          /\ c # d /\ d \in Neighbours(RawScores, c)
          /\ At(RawScores, c) = At(RawScores, d)
          /\ At(post.heat, c) > 0 /\ At(post.heat, d) = At(post.heat, c)
    /\ \E c \in Cells(RawScores) : At(RawScores, c) > 0 /\ At(post.heat, c) = 0

ShapesAgree ==
    /\ <<outputs.reg.shape[2], outputs.reg.shape[3]>> = <<HeatH, HeatW>>
    /\ <<outputs.wh.shape[2], outputs.wh.shape[3]>> = <<HeatH, HeatW>>

\* every row of detections is the box around its candidate's cell, refined
\* by the offset and sized by the size found at that cell
BoxGeometry ==
    \A k \in DOMAIN post.detections :
        LET x == post.cand.xs[k]
            y == post.cand.ys[k]
            cx == RatAdd(RatInt(x), Rat(outputs.reg.data[0][y][x], 10))
            cy == RatAdd(RatInt(y), Rat(outputs.reg.data[1][y][x], 10))
            w == Rat(outputs.wh.data[0][y][x], 10)
            h == Rat(outputs.wh.data[1][y][x], 10)
            r == post.detections[k]
        IN  /\ RatAdd(r.x1, r.x2) = RatMul(RatInt(2), cx)
            /\ RatAdd(r.y1, r.y2) = RatMul(RatInt(2), cy)
            /\ RatSub(r.x2, r.x1) = w
            /\ RatSub(r.y2, r.y1) = h

\* the cells of the heatmap whose score is not zero
NonZeroCells == {c \in Cells(RawScores) : At(RawScores, c) # 0}

\* a heatmap with a single non-zero score, at or above the threshold, gives
\* one detection, of that cell's class and centred on that cell plus its
\* offset
SinglePeak ==
    \A c \in NonZeroCells :
        (NonZeroCells = {c} /\ At(RawScores, c) >= threshold) =>
            /\ Len(post.filtered) = 1
            /\ post.filtered[1].id = RatInt(c[1])
            /\ RatAdd(post.filtered[1].x1, post.filtered[1].x2)
                 = RatMul(RatInt(2), RatAdd(RatInt(c[3]), Rat(outputs.reg.data[0][c[2]][c[3]], 10)))
            /\ RatAdd(post.filtered[1].y1, post.filtered[1].y2)
                 = RatMul(RatInt(2), RatAdd(RatInt(c[2]), Rat(outputs.reg.data[1][c[2]][c[3]], 10)))

\* C5: the box of every candidate, before projection, has centre
\* (x + offset_x, y + offset_y) and corners half a width and half a height
\* away from it, offset and size read at the candidate's cell; a heatmap
\* whose only non-zero score lies at or above the threshold yields exactly
\* one detection, with that cell's class as classId and that centre.
C5_BoxesAndSinglePeak ==
    (pc = "done" /\ ShapesAgree) => (BoxGeometry /\ SinglePeak)

Passing == {k \in DOMAIN post.cand.score : post.cand.score[k] >= threshold}

Rank(k) == Cardinality({j \in Passing : j <= k})

\* C6: postprocess returns one Detection for each candidate whose score is
\* >= the threshold, in order, and none for a candidate below it; a
\* threshold that excludes every candidate gives an empty list, returned
\* normally: a decode whose blobs agree in shape and whose heatmap holds K
\* cells always returns.
C6_ThresholdFilter ==
    /\ pc = "done" =>
          /\ Len(post.dets) = Cardinality(Passing)
          /\ \A k \in Passing :
                /\ post.dets[Rank(k)].score = post.cand.score[k]
                /\ post.dets[Rank(k)].id = post.cand.clses[k]
          /\ (Passing = {}) => post.dets = <<>>
    /\ (Ran /\ ShapesAgree /\ HeatH * HeatW >= num_predictions) => pc = "done"

\* a candidate exactly at the threshold is returned, one below it is not
C6_Witness ==
    /\ pc = "done"
    /\ Len(post.dets) = 1
    /\ post.dets[1].score = threshold
    /\ \E k \in DOMAIN post.cand.score : post.cand.score[k] < threshold

\* the thresholds compared with one another, per-mille
ThresholdRange == Thresholds \cup Scores \cup {600}

\* the detections postprocess returns for the same blobs, metadata and
\* partition outcomes under threshold t
DetectionsAt(t) ==
    transform(filter_detections(post.detections, t), post.center, post.scale, HeatH, HeatW)

\* C7: for the same output tensors and image metadata, a higher threshold
\* never returns more detections than a lower one.
C7_ThresholdMonotonic ==
    pc = "done" =>
        /\ post.dets = DetectionsAt(threshold)
        /\ LET returned == {<<t, Len(DetectionsAt(t))>> : t \in ThresholdRange}
           IN  \A lo, hi \in returned : lo[1] <= hi[1] => hi[2] <= lo[2]

\* raising the threshold twice loses a detection each time
C7_Witness ==
    /\ pc = "done"
    /\ Len(DetectionsAt(500)) = 2
    /\ Len(DetectionsAt(600)) = 1
    /\ Len(DetectionsAt(1100)) = 0

\* C8: the forward and the inverse matrix of the same center, scale,
\* rotation and output size are inverses: a point mapped forward and then
\* through the inverse is the point itself.
C8_AffineRoundTrip ==
    pc = "solved" => aff.back = aff.pt

\* a quarter turn with a change of scale, which moves the point
C8_Witness ==
    /\ pc = "solved"
    /\ aff.rot = 90
    /\ aff.scale # aff.output_size[1]
    /\ aff.there # aff.pt
    /\ aff.back = aff.pt

\* C9: when the offset blob or the size blob differs from the heatmap in
\* height or width, postprocess fails and returns no detections.
C9_ShapeMismatchFails ==
    (Ran /\ ~ShapesAgree) => (pc = "error" /\ post.dets = <<>>)

\* C10: postprocess gives the inverse solve the center and scale that
\* preprocess gave the forward solve for the same image:
\* center = (width/2, height/2), scale = max(height, width).
C10_SameCenterScale ==
    pc = "done" =>
        /\ pre.center = <<RatHalf(image[2]), RatHalf(image[1])>>
        /\ pre.scale = Max2(image[1], image[2])
        /\ post.center = pre.center
        /\ post.scale = pre.scale

\* the vector _tranpose_and_gather_feat(feat, inds) returns for candidate k
Gathered(feat, k) == tranpose_and_gather_feat(feat, post.cand.inds)[k]

\* C11: for every candidate _topk returns on a heatmap of height H and
\* width W, square or not, the flat index ind lies in [0, H*W), the row and
\* column are y = ind div W and x = ind mod W (so y*W + x = ind), and the
\* vector _tranpose_and_gather_feat returns for the candidate from a
\* [2,H,W] tensor is feat[:, y, x].
C11_IndexRoundTrip ==
    (pc = "done" /\ ShapesAgree) =>
        \A k \in DOMAIN post.cand.inds :
            LET ind == post.cand.inds[k]
                y == post.cand.ys[k]
                x == post.cand.xs[k]
            IN  /\ ind \in 0..(HeatH * HeatW - 1)
                /\ y = ind \div HeatW
                /\ x = ind % HeatW
                /\ y * HeatW + x = ind
                /\ \A feat \in {outputs.reg, outputs.wh} :
                      /\ DOMAIN Gathered(feat, k) = 0..1
                      /\ \A d \in 0..1 : Gathered(feat, k)[d] = feat.data[d][y][x]

\* a heatmap that is not square, with a scoring candidate off the first
\* row and off the first column
C11_Witness ==
    /\ pc = "done"
    /\ HeatH > 1 /\ HeatW > HeatH
    /\ \E k \in DOMAIN post.cand.inds :
          /\ post.cand.score[k] > 0
          /\ post.cand.ys[k] = 1 /\ post.cand.xs[k] = 2
          /\ post.cand.inds[k] = HeatW + 2
          /\ Gathered(outputs.reg, k)[0] = outputs.reg.data[0][1][2]

\* the centre of the image, (width / 2, height / 2)
ImageCentre == <<RatHalf(image[2]), RatHalf(image[1])>>

\* (cx + (x - W/2) * scale / W, cy + (y - H/2) * scale / W), scale the scale
\* _transform is given
Projected(x, y) ==
    <<RatAdd(ImageCentre[1], RatMul(RatSub(x, RatHalf(HeatW)), Rat(post.scale, HeatW))),
      RatAdd(ImageCentre[2], RatMul(RatSub(y, RatHalf(HeatH)), Rat(post.scale, HeatW)))>>

\* a point inside the image, borders included
InImage(pt) ==
    /\ pt[1].n >= 0 /\ pt[1].n <= image[2] * pt[1].d
    /\ pt[2].n >= 0 /\ pt[2].n <= image[1] * pt[2].d

\* C12: _transform maps each of the two corners (x, y) of every filtered
\* heatmap-space box, independently, through the inverse matrix of output
\* size (W, H), to (cx + (x - W/2) * scale / W, cy + (y - H/2) * scale / W)
\* with (cx, cy) the image centre, so that the heatmap centre goes to the
\* image centre; score and class id are unchanged and nothing is clamped
\* to the image.
C12_CornersProjected ==
    pc = "done" =>
        /\ DOMAIN post.dets = DOMAIN post.filtered
        /\ \A p \in DOMAIN post.filtered :
              LET box == post.filtered[p]
                  det == post.dets[p]
              IN  /\ <<det.x1, det.y1>> = Projected(box.x1, box.y1)
                  /\ <<det.x2, det.y2>> = Projected(box.x2, box.y2)
                  /\ det.score = box.score
                  /\ det.id = box.id
        /\ transform_preds([p \in {1} |-> <<RatHalf(HeatW), RatHalf(HeatH)>>],
                           post.center, post.scale, <<HeatW, HeatH>>)[1] = ImageCentre

\* a box of a heatmap wider than high, in an image higher than wide, whose
\* two corners land outside the image, one on each side
C12_Witness ==
    /\ pc = "done"
    /\ HeatW > HeatH /\ image[1] > image[2]
    /\ post.scale # HeatW
    /\ \E p \in DOMAIN post.dets :
          /\ post.dets[p].score >= threshold
          /\ post.dets[p].x1.n < 0 /\ post.dets[p].y1.n < 0
          /\ post.dets[p].x2.n > image[2] * post.dets[p].x2.d
          /\ post.dets[p].y2.n > image[1] * post.dets[p].y2.d
          /\ ~InImage(<<post.dets[p].x1, post.dets[p].y1>>)
          /\ ~InImage(<<post.dets[p].x2, post.dets[p].y2>>)

====
